---------------------------- MODULE Spec2Model ----------------------------
(***************************************************************************)
(* A model of habitat-sim's setup.py: the argument cache that build_ext    *)
(* reloads and rewrites (CMakeBuild.build_extension), the decision whether *)
(* cmake has to be rerun (CMakeBuild.run_cmake) and the merge of the       *)
(* compile-command databases (CMakeBuild.create_compile_commands).         *)
(*                                                                         *)
(* A Python str is a sequence of one-character strings; a text file is a   *)
(* record [exists, content].                                               *)
(***************************************************************************)
EXTENDS Integers, Sequences, FiniteSets, TLC

VARIABLES
    pc,                    \* where the running setup.py process stands
    requested,             \* args as parsed from the command line and environment
    args,                  \* the module-level Namespace `args`
    is_pip,                \* is_pip() of the running process
    debug,                 \* self.debug of build_ext
    args_cache_file,       \* <build_temp>/setuppy_args.json
    cmake_cache,           \* <build_temp>/CMakeCache.txt
    cmake_args,            \* the local cmake_args of build_extension
    decision,              \* what run_cmake(cmake_args) gave
    build_outputs,         \* the files build/*/compile_commands.json, in glob order
    all_commands,          \* the local all_commands of create_compile_commands
    compile_commands_json, \* ./compile_commands.json
    wrote,                 \* the running process opened compile_commands.json for writing
    cache_saved,           \* the running process opened setuppy_args.json for writing
    last_dump,             \* vars(args) as the last json.dump of line 210 was given it
    viewer_link,           \* <build>/viewer is a symlink
    utils_link,            \* <build>/utils is a symlink
    invocations,           \* number of setup.py processes started so far
    configure_calls,       \* calls of `cmake -H.. -B..` by the running process
    build_calls,           \* calls of `cmake --build` by the running process
    failed                 \* the step whose check_call raised in the running process

vars == <<pc, requested, args, is_pip, debug, args_cache_file, cmake_cache, cmake_args,
          decision, build_outputs, all_commands, compile_commands_json, wrote,
          cache_saved, last_dump, viewer_link, utils_link, invocations,
          configure_calls, build_calls, failed>>

---------------------------------------------------------------------------
(* Bounds of the model *)

\* setup.py processes run one after the other
MaxInvocations == 2
\* lines of CMakeCache.txt and arguments handed to run_cmake
MaxCacheLines == 2
MaxCMakeArgs == 2
\* files build/*/compile_commands.json and records in all of them together
MaxFiles == 2
MaxRecords == 3

---------------------------------------------------------------------------
(* Python str operations *)

\* s[a:b]
Slice(s, a, b) == SubSeq(s, a + 1, IF b < Len(s) THEN b ELSE Len(s))

\* s[a:]
SliceFrom(s, a) == SubSeq(s, a + 1, Len(s))

\* s.startswith(p)
StartsWith(s, p) == Len(s) >= Len(p) /\ SubSeq(s, 1, Len(p)) = p

\* the 1-based position of the first c in s at or after i, 0 when there is none
RECURSIVE Find(_, _, _)
Find(s, c, i) ==
    IF i > Len(s) THEN 0
    ELSE IF s[i] = c THEN i
    ELSE Find(s, c, i + 1)

\* s.split(c, 1)
Split1(s, c) ==
    LET i == Find(s, c, 1)
    IN  IF i = 0 THEN <<s>>
        ELSE <<SubSeq(s, 1, i - 1), SubSeq(s, i + 1, Len(s))>>

\* the characters the regular expression class \w matches
WordChars ==
    {"A", "B", "C", "D", "E", "F", "G", "H", "I", "J", "K", "L", "M",
     "N", "O", "P", "Q", "R", "S", "T", "U", "V", "W", "X", "Y", "Z",
     "a", "b", "c", "d", "e", "f", "g", "h", "i", "j", "k", "l", "m",
     "n", "o", "p", "q", "r", "s", "t", "u", "v", "w", "x", "y", "z",
     "0", "1", "2", "3", "4", "5", "6", "7", "8", "9", "_"}

\* the first position at or after i of s that holds no \w character
RECURSIVE WordRunEnd(_, _)
WordRunEnd(s, i) ==
    IF i <= Len(s) /\ s[i] \in WordChars THEN WordRunEnd(s, i + 1) ELSE i

---------------------------------------------------------------------------
(* CMakeBuild.run_cmake *)

NoMatch == [ok |-> FALSE, K |-> <<>>, V |-> <<>>]

\* cache_parser.match(l) for cache_parser = (?P<K>\w+?)(:\w+?|)=(?P<V>.*?)$
\* `$` stands at the end of l or before its final newline, `.` takes no newline
cache_parser_match(l) ==
    LET body == IF Len(l) > 0 /\ l[Len(l)] = "\n" THEN SubSeq(l, 1, Len(l) - 1) ELSE l
        kEnd == WordRunEnd(body, 1)
        tEnd == WordRunEnd(body, kEnd + 1)
    IN  IF Find(body, "\n", 1) # 0 \/ kEnd = 1 \/ kEnd > Len(body) THEN NoMatch
        ELSE IF body[kEnd] = "="
             THEN [ok |-> TRUE, K |-> SubSeq(body, 1, kEnd - 1),
                   V |-> SubSeq(body, kEnd + 1, Len(body))]
        ELSE IF body[kEnd] = ":" /\ tEnd > kEnd + 1 /\ tEnd <= Len(body) /\ body[tEnd] = "="
             THEN [ok |-> TRUE, K |-> SubSeq(body, 1, kEnd - 1),
                   V |-> SubSeq(body, tEnd + 1, Len(body))]
        ELSE NoMatch

\* the loop `for l in cache_contents` from line i on: does some line make it return True
RECURSIVE cache_line_differs(_, _, _, _)
cache_line_differs(cache_contents, i, k, v) ==
    IF i > Len(cache_contents) THEN FALSE
    ELSE LET match == cache_parser_match(cache_contents[i])
         IN  IF ~match.ok THEN cache_line_differs(cache_contents, i + 1, k, v)
             ELSE IF match.K = k /\ match.V # v THEN TRUE
             ELSE cache_line_differs(cache_contents, i + 1, k, v)

\* the loop `for arg in cmake_args` from argument i on
RECURSIVE compare_args(_, _, _)
compare_args(cache_contents, argv, i) ==
    IF i > Len(argv) THEN "False"
    ELSE IF Slice(argv[i], 0, 2) = <<"-", "G">>
         THEN compare_args(cache_contents, argv, i + 1)
    ELSE LET kv == Split1(argv[i], "=")
         IN  IF Len(kv) # 2 THEN "ValueError"
             ELSE IF cache_line_differs(cache_contents, 1, SliceFrom(kv[1], 2), kv[2])
                  THEN "True"
             ELSE compare_args(cache_contents, argv, i + 1)

\* run_cmake without `if args.force_cmake: return True` (mutant)
run_cmake_ignore_force(force_cmake, cache, argv) ==
    IF cache.exists THEN compare_args(cache.content, argv, 1) ELSE "True"

\* run_cmake: "True", "False", or "ValueError" when k, v = arg.split("=", 1) raises
run_cmake(force_cmake, cache, argv) ==
    IF force_cmake THEN "True"
    ELSE IF cache.exists THEN compare_args(cache.content, argv, 1)
    ELSE "True"

---------------------------------------------------------------------------
(* The parsed arguments and the argument cache *)

ARG_CACHE_BLACKLIST == {"force_cmake"}

\* dest of the store_true arguments of build_parser
BoolKeys == {"headless", "force_cmake", "build_tests", "no_update_submodules",
             "no_cached_args"}

\* dest of the arguments of build_parser: vars(args) after parse_known_args
ParserKeys == BoolKeys \cup {"cmake_args"}

\* all keys in the order sorted() gives them
KeyOrder == <<"build_datatool", "build_tests", "cmake_args", "force_cmake",
              "headless", "no_cached_args", "no_update_submodules">>

JsonTrue == <<"t", "r", "u", "e">>
JsonFalse == <<"f", "a", "l", "s", "e">>
Quote == "\""

\* the JSON text of one value: true, false or a quoted string
json_encode(k, v) ==
    IF k = "cmake_args" THEN <<Quote>> \o v \o <<Quote>>
    ELSE IF v THEN JsonTrue ELSE JsonFalse

\* the value of one JSON text
json_decode(text) ==
    IF text = JsonTrue THEN TRUE
    ELSE IF text = JsonFalse THEN FALSE
    ELSE SubSeq(text, 2, Len(text) - 1)

\* json.dump that leaves out the last member (mutant)
json_dump_short(namespace) ==
    LET Present(k) == k \in DOMAIN namespace
        keys == SelectSeq(KeyOrder, Present)
    IN  [i \in 1..(Len(keys) - 1) |->
            <<keys[i], IF keys[i] = "cmake_args"
                       THEN <<Quote>> \o namespace[keys[i]] \o <<Quote>>
                       ELSE IF namespace[keys[i]] THEN JsonTrue ELSE JsonFalse>>]

\* json.dump(vars(args), f, indent=4, sort_keys=True): the members in key order
json_dump(namespace) ==
    LET Present(k) == k \in DOMAIN namespace
        keys == SelectSeq(KeyOrder, Present)
    IN  [i \in 1..Len(keys) |-> <<keys[i], json_encode(keys[i], namespace[keys[i]])>>]

\* json.load(f): the dict of the members
json_load(content) ==
    LET keys == {content[i][1] : i \in 1..Len(content)}
        Last(k) == CHOOSE i \in 1..Len(content) :
                       /\ content[i][1] = k
                       /\ \A j \in (i + 1)..Len(content) : content[j][1] # k
    IN  [k \in keys |-> json_decode(content[Last(k)][2])]

\* the loop over cached_args.items() keeping the attributes args already has (mutant)
load_cached_args_keep_current(namespace, cached_args) ==
    [k \in DOMAIN namespace \cup (DOMAIN cached_args \ ARG_CACHE_BLACKLIST) |->
        IF k \in DOMAIN namespace THEN namespace[k] ELSE cached_args[k]]

\* the loop over cached_args.items() without the blacklist test (mutant)
load_cached_args_no_blacklist(namespace, cached_args) ==
    [k \in DOMAIN namespace \cup DOMAIN cached_args |->
        IF k \in DOMAIN cached_args THEN cached_args[k] ELSE namespace[k]]

\* for k, v in cached_args.items(): if k not in ARG_CACHE_BLACKLIST: setattr(args, k, v)
load_cached_args(namespace, cached_args) ==
    [k \in DOMAIN namespace \cup (DOMAIN cached_args \ ARG_CACHE_BLACKLIST) |->
        IF k \in DOMAIN cached_args /\ k \notin ARG_CACHE_BLACKLIST
        THEN cached_args[k] ELSE namespace[k]]

\* the guard of the reload: not is_pip() and not args.no_cached_args and osp.exists(..)
reloads_cache(pip, namespace, file) ==
    ~pip /\ ~namespace["no_cached_args"] /\ file.exists

NoFile == [exists |-> FALSE, content |-> <<>>]
File(content) == [exists |-> TRUE, content |-> content]

---------------------------------------------------------------------------
(* CMakeBuild.create_compile_commands *)

GccTok == <<"g", "c", "c", " ">>
GxxTok == <<"g", "+", "+", " ">>

\* the files taken last to first (mutant)
RECURSIVE merge_commands_reversed(_, _)
merge_commands_reversed(files, i) ==
    IF i > Len(files) THEN <<>>
    ELSE merge_commands_reversed(files, i + 1) \o files[i]

\* [entry for f in commands for entry in load(f)], from file i on
RECURSIVE merge_commands(_, _)
merge_commands(files, i) ==
    IF i > Len(files) THEN <<>>
    ELSE files[i] \o merge_commands(files, i + 1)

\* startswith("gcc") without the blank (mutant)
normalize_command_any_gcc(command) ==
    IF StartsWith(command.command, <<"g", "c", "c">>)
    THEN [command EXCEPT !.command = GxxTok \o SliceFrom(command.command, 4)]
    ELSE command

\* the body of `for command in all_commands` for one record
normalize_command(command) ==
    IF StartsWith(command.command, GccTok)
    THEN [command EXCEPT !.command = GxxTok \o SliceFrom(command.command, 4)]
    ELSE command

normalize_commands(commands) ==
    [i \in 1..Len(commands) |-> normalize_command(commands[i])]

\* the JSON text of one record
dump_record(r) ==
    <<"{", Quote>> \o r.directory \o <<Quote, ",", Quote>> \o r.command
        \o <<Quote, ",", Quote>> \o r.file \o <<Quote, "}">>

RECURSIVE dump_records(_, _)
dump_records(commands, i) ==
    IF i > Len(commands) THEN <<>>
    ELSE (IF i > 1 THEN <<",">> ELSE <<>>) \o dump_record(commands[i])
             \o dump_records(commands, i + 1)

\* json.dumps(all_commands, indent=2)
json_dumps(commands) == <<"[">> \o dump_records(commands, 1) \o <<"]">>

\* contents = "" unless the file exists, then f.read()
read_contents(file) == IF file.exists THEN file.content ELSE <<>>

\* the file written whatever it holds (mutant)
writes_file_always(commands, file) == TRUE

\* lines 259-266: does the function open compile_commands.json for writing
writes_file(commands, file) == read_contents(file) # json_dumps(commands)

\* lines 259-266: the file afterwards
write_if_changed(commands, file) ==
    IF writes_file(commands, file) THEN File(json_dumps(commands)) ELSE file

---------------------------------------------------------------------------
(* The command line and the environment of one setup.py process *)

\* the value of --cmake-args (or CMAKE_ARGS) the command lines of the model give
BlobDefWarn == <<"-", "D", "A", "=", "1", " ", "-", "W", "n", "o", "-", "d", "e", "v">>

\* parser.parse_known_args on a command line without options
DefaultArgs == [k \in ParserKeys |-> IF k = "cmake_args" THEN <<>> ELSE FALSE]

\* the command lines of the model: no option, one of the flags, or --cmake-args
RequestedSet ==
    {DefaultArgs}
    \cup {[DefaultArgs EXCEPT ![k] = TRUE] : k \in BoolKeys}
    \cup {[DefaultArgs EXCEPT !["cmake_args"] = BlobDefWarn]}

\* a setuppy_args.json left by another version of setup.py
LegacyCache ==
    <<<<"build_datatool", JsonTrue>>, <<"force_cmake", JsonTrue>>,
      <<"headless", JsonTrue>>>>

extdir == <<"/", "e", "x", "t">>
sys_executable == <<"/", "p", "y">>
StrON == <<"O", "N">>
StrOFF == <<"O", "F", "F">>
StrDebug == <<"D", "e", "b", "u", "g">>
StrRelWithDebInfo == <<"R", "e", "l", "W", "i", "t", "h", "D", "e", "b", "I", "n", "f", "o">>
OptLibraryOutputDirectory == <<"-", "D", "C", "M", "A", "K", "E", "_", "L", "I", "B", "R", "A", "R", "Y", "_", "O", "U", "T", "P", "U", "T", "_", "D", "I", "R", "E", "C", "T", "O", "R", "Y", "=">>
OptPythonExecutable == <<"-", "D", "P", "Y", "T", "H", "O", "N", "_", "E", "X", "E", "C", "U", "T", "A", "B", "L", "E", "=">>
OptExportCompileCommands == <<"-", "D", "C", "M", "A", "K", "E", "_", "E", "X", "P", "O", "R", "T", "_", "C", "O", "M", "P", "I", "L", "E", "_", "C", "O", "M", "M", "A", "N", "D", "S", "=">>
OptBuildType == <<"-", "D", "C", "M", "A", "K", "E", "_", "B", "U", "I", "L", "D", "_", "T", "Y", "P", "E", "=">>
OptNinja == <<"-", "G", "N", "i", "n", "j", "a">>
OptGuiViewers == <<"-", "D", "B", "U", "I", "L", "D", "_", "G", "U", "I", "_", "V", "I", "E", "W", "E", "R", "S", "=">>
OptBuildTests == <<"-", "D", "B", "U", "I", "L", "D", "_", "T", "E", "S", "T", "S", "=">>

\* shlex.split(s) for s without quotes or escapes: the words between blanks
RECURSIVE shlex_split(_)
shlex_split(s) ==
    IF s = <<>> THEN <<>>
    ELSE IF s[1] = " " THEN shlex_split(Tail(s))
    ELSE LET sp == Find(s, " ", 1)
         IN  IF sp = 0 THEN <<s>>
             ELSE <<SubSeq(s, 1, sp - 1)>> \o shlex_split(SubSeq(s, sp + 1, Len(s)))

\* lines 152-173: the local cmake_args
build_cmake_args(namespace, pip, has_ninja, self_debug) ==
    <<OptLibraryOutputDirectory \o extdir,
      OptPythonExecutable \o sys_executable,
      OptExportCompileCommands \o (IF pip THEN StrOFF ELSE StrON)>>
    \o shlex_split(namespace["cmake_args"])
    \o <<OptBuildType \o (IF self_debug THEN StrDebug ELSE StrRelWithDebInfo)>>
    \o (IF has_ninja THEN <<OptNinja>> ELSE <<>>)
    \o <<OptGuiViewers \o (IF ~namespace["headless"] THEN StrON ELSE StrOFF),
         OptBuildTests \o (IF namespace["build_tests"] THEN StrON ELSE StrOFF)>>

CacheHeader == <<"#", " ", "T", "h", "i", "s", " ", "i", "s", " ", "t", "h", "e", " ", "C", "M", "a", "k", "e", "C", "a", "c", "h", "e", " ", "f", "i", "l", "e", ".", "\n">>
TypeUninitialized == <<":", "U", "N", "I", "N", "I", "T", "I", "A", "L", "I", "Z", "E", "D">>

\* what a successful `cmake -H.. -B.. <argv>` leaves in CMakeCache.txt: its header
\* and one entry for every -D<key>=<value> it was given
RECURSIVE generated_cache_lines(_, _)
generated_cache_lines(argv, i) ==
    IF i > Len(argv) THEN <<>>
    ELSE LET eq == Find(argv[i], "=", 1)
         IN  (IF Slice(argv[i], 0, 2) = <<"-", "D">> /\ eq # 0
              THEN <<SubSeq(argv[i], 3, eq - 1) \o TypeUninitialized
                         \o SubSeq(argv[i], eq, Len(argv[i])) \o <<"\n">> >>
              ELSE <<>>)
             \o generated_cache_lines(argv, i + 1)

generated_cache(argv) == File(<<CacheHeader>> \o generated_cache_lines(argv, 1))

\* one build/*/compile_commands.json as the build writes it
Dir == <<"/", "b">>
FileCpp == <<"a", ".", "c", "p", "p">>
CmdGcc == <<"g", "c", "c", " ", "-", "c", " ", "a", ".", "c", "p", "p">>
CmdClang == <<"c", "l", "a", "n", "g", " ", "-", "c", " ", "a", ".", "c">>
CmdGcc9 == <<"g", "c", "c", "-", "9", " ", "-", "c", " ", "a", ".", "c", "p", "p">>
CmdGxx == <<"g", "+", "+", " ", "-", "c", " ", "a", ".", "c", "p", "p">>
Record(cmd) == [directory |-> Dir, command |-> cmd, file |-> FileCpp]
FreshOutputs == << <<Record(CmdGcc), Record(CmdClang)>> >>

---------------------------------------------------------------------------
(* One setup.py process: CMakeBuild.build_extension step by step *)

Running == {"load", "submodules", "run_cmake", "configure", "build", "finish"}

\* python setup.py ... or pip install .: the arguments are parsed, build_ext starts
StartProcess(namespace, pip) ==
    /\ pc \in {"idle", "done", "aborted"}
    /\ invocations < MaxInvocations
    /\ invocations' = invocations + 1
    /\ requested' = namespace
    /\ args' = namespace
    /\ is_pip' = pip
    /\ pc' = "load"
    /\ cmake_args' = <<>>
    /\ decision' = "None"
    /\ all_commands' = <<>>
    /\ configure_calls' = 0
    /\ build_calls' = 0
    /\ failed' = "none"
    /\ wrote' = FALSE
    /\ cache_saved' = FALSE
    /\ UNCHANGED <<debug, args_cache_file, cmake_cache, build_outputs,
                   compile_commands_json, last_dump, viewer_link, utils_link>>

\* lines 135-143
LoadCachedArgs ==
    /\ pc = "load"
    /\ args' = IF reloads_cache(is_pip, args, args_cache_file)
               THEN load_cached_args(args, json_load(args_cache_file.content))
               ELSE args
    /\ pc' = "submodules"
    /\ UNCHANGED <<requested, is_pip, debug, args_cache_file, cmake_cache, cmake_args,
                   decision, build_outputs, all_commands, compile_commands_json, wrote,
                   cache_saved, last_dump, viewer_link, utils_link, invocations,
                   configure_calls, build_calls, failed>>

\* lines 147-150: git submodule update, which check_call lets fail
UpdateSubmodules(in_git, ok) ==
    /\ pc = "submodules"
    /\ IF in_git /\ ~args["no_update_submodules"] /\ ~ok
       THEN pc' = "aborted" /\ failed' = "submodules"
       ELSE pc' = "run_cmake" /\ failed' = failed
    /\ UNCHANGED <<requested, args, is_pip, debug, args_cache_file, cmake_cache,
                   cmake_args, decision, build_outputs, all_commands,
                   compile_commands_json, wrote, cache_saved, last_dump, viewer_link,
                   utils_link, invocations, configure_calls, build_calls>>

\* lines 152-180: cmake_args is put together and run_cmake decides
DecideReconfigure(has_ninja) ==
    /\ pc = "run_cmake"
    /\ cmake_args' = build_cmake_args(args, is_pip, has_ninja, debug)
    /\ decision' = run_cmake(args["force_cmake"], cmake_cache, cmake_args')
    /\ IF decision' = "True" THEN pc' = "configure" /\ failed' = failed
       ELSE IF decision' = "False" THEN pc' = "build" /\ failed' = failed
       ELSE pc' = "aborted" /\ failed' = "run_cmake"
    /\ UNCHANGED <<requested, args, is_pip, debug, args_cache_file, cmake_cache,
                   build_outputs, all_commands, compile_commands_json, wrote,
                   cache_saved, last_dump, viewer_link, utils_link, invocations,
                   configure_calls, build_calls>>

\* check_call of the configure step returning to the caller when cmake failed (mutant)
ConfigureIgnoringFailure(ok) ==
    /\ pc = "configure"
    /\ configure_calls' = configure_calls + 1
    /\ pc' = "build"
    /\ IF ok
       THEN cmake_cache' = generated_cache(cmake_args) /\ failed' = failed
       ELSE cmake_cache' = cmake_cache /\ failed' = "configure"
    /\ UNCHANGED <<requested, args, is_pip, debug, args_cache_file, cmake_args, decision,
                   build_outputs, all_commands, compile_commands_json, wrote,
                   cache_saved, last_dump, viewer_link, utils_link, invocations,
                   build_calls>>

\* lines 181-185: check_call of cmake -H<sourcedir> -B<build_temp> <cmake_args>
Configure(ok) ==
    /\ pc = "configure"
    /\ configure_calls' = configure_calls + 1
    /\ IF ok
       THEN cmake_cache' = generated_cache(cmake_args) /\ pc' = "build" /\ failed' = failed
       ELSE cmake_cache' = cmake_cache /\ pc' = "aborted" /\ failed' = "configure"
    /\ UNCHANGED <<requested, args, is_pip, debug, args_cache_file, cmake_args, decision,
                   build_outputs, all_commands, compile_commands_json, wrote,
                   cache_saved, last_dump, viewer_link, utils_link, invocations,
                   build_calls>>

\* line 187: check_call of cmake --build <build_temp>
Build(ok, outputs) ==
    /\ pc = "build"
    /\ build_calls' = build_calls + 1
    /\ IF ok
       THEN build_outputs' = outputs /\ pc' = "finish" /\ failed' = failed
       ELSE build_outputs' = build_outputs /\ pc' = "aborted" /\ failed' = "build"
    /\ UNCHANGED <<requested, args, is_pip, debug, args_cache_file, cmake_cache,
                   cmake_args, decision, all_commands, compile_commands_json, wrote,
                   cache_saved, last_dump, viewer_link, utils_link, invocations,
                   configure_calls>>

\* lines 243-266
create_compile_commands(files, file) ==
    LET commands == normalize_commands(merge_commands(files, 1))
    IN  [all_commands |-> commands,
         wrote |-> writes_file(commands, file),
         file |-> write_if_changed(commands, file)]

\* the cache written only `if not args.no_cached_args` (mutant)
save_args_unless_disabled(namespace, file) ==
    IF namespace["no_cached_args"] THEN [saved |-> FALSE, file |-> file]
    ELSE [saved |-> TRUE, file |-> File(json_dump(namespace))]

\* lines 209-210: open(args_cache_file, "w") and json.dump(vars(args), ..), unconditionally
save_args(namespace, file) == [saved |-> TRUE, file |-> File(json_dump(namespace))]

\* lines 188-210: return under pip, else the symlinks, compile_commands.json and the cache
Finish ==
    /\ pc = "finish"
    /\ pc' = "done"
    /\ IF is_pip
       THEN UNCHANGED <<viewer_link, utils_link, compile_commands_json, wrote,
                        all_commands, args_cache_file, cache_saved, last_dump>>
       ELSE LET cc == create_compile_commands(build_outputs, compile_commands_json)
                sv == save_args(args, args_cache_file)
            IN  /\ viewer_link' = (viewer_link \/ ~args["headless"])
                /\ utils_link' = TRUE
                /\ compile_commands_json' = cc.file
                /\ wrote' = cc.wrote
                /\ all_commands' = cc.all_commands
                /\ args_cache_file' = sv.file
                /\ cache_saved' = sv.saved
                /\ last_dump' = IF sv.saved THEN [done |-> TRUE, namespace |-> args]
                                ELSE last_dump
    /\ UNCHANGED <<requested, args, is_pip, debug, cmake_cache, cmake_args, decision,
                   build_outputs, invocations, configure_calls, build_calls, failed>>

\* what the variables hold while no setup.py process has run
Quiet ==
    /\ is_pip = FALSE
    /\ decision = "None"
    /\ all_commands = <<>>
    /\ wrote = FALSE
    /\ cache_saved = FALSE
    /\ last_dump = [done |-> FALSE, namespace |-> DefaultArgs]
    /\ viewer_link = FALSE
    /\ utils_link = FALSE
    /\ invocations = 0
    /\ configure_calls = 0
    /\ build_calls = 0
    /\ failed = "none"

\* a build tree before the first build, with or without a cache of another version
Init ==
    /\ Quiet
    /\ pc = "idle"
    /\ requested = DefaultArgs
    /\ args = DefaultArgs
    /\ cmake_args = <<>>
    /\ debug \in BOOLEAN
    /\ args_cache_file \in {NoFile, File(LegacyCache)}
    /\ cmake_cache = NoFile
    /\ build_outputs = <<>>
    /\ compile_commands_json = NoFile

Next ==
    \/ \E namespace \in RequestedSet, pip \in BOOLEAN : StartProcess(namespace, pip)
    \/ LoadCachedArgs
    \/ \E in_git \in BOOLEAN, ok \in BOOLEAN : UpdateSubmodules(in_git, ok)
    \/ \E has_ninja \in BOOLEAN : DecideReconfigure(has_ninja)
    \/ \E ok \in BOOLEAN : Configure(ok)
    \/ \E ok \in BOOLEAN, outputs \in {build_outputs, FreshOutputs} : Build(ok, outputs)
    \/ Finish

Spec == Init /\ [][Next]_vars

---------------------------------------------------------------------------
(* run_cmake on its own: any force flag, CMakeCache.txt and argument list *)

SeqsUpTo(S, n) == UNION {[1..m -> S] : m \in 0..n}

CacheLineSet == {<<"A", ":", "S", "T", "R", "I", "N", "G", "=", "1", "\n">>, <<"B", ":", "S", "T", "R", "I", "N", "G", "=", "2", "\n">>, <<"B", ":", "S", "T", "R", "I", "N", "G", "=", "3">>, <<"#", "B", "=", "9", "\n">>, <<"B", ":", "=", "9", "\n">>,
                 <<"C", "=", "1", "=", "x", "\n">>}

CMakeArgSet == {<<"-", "D", "A", "=", "1">>, <<"-", "D", "B", "=", "2">>, <<"-", "G", "N", "i", "n", "j", "a">>, <<"-", "D", "C", "=", "1", "=", "x">>, <<"-", "W", "n", "o", "-", "d", "e", "v">>, <<"-", "G", "B", "=", "7">>}

InitRunCMake ==
    /\ Quiet
    /\ pc = "call_run_cmake"
    /\ debug = FALSE
    /\ \E force \in BOOLEAN : args = [DefaultArgs EXCEPT !["force_cmake"] = force]
    /\ requested = args
    /\ args_cache_file = NoFile
    /\ cmake_cache \in {NoFile} \cup {File(c) : c \in SeqsUpTo(CacheLineSet, MaxCacheLines)}
    /\ cmake_args \in SeqsUpTo(CMakeArgSet, MaxCMakeArgs)
    /\ build_outputs = <<>>
    /\ compile_commands_json = NoFile

\* self.run_cmake(cmake_args)
CallRunCMake ==
    /\ pc = "call_run_cmake"
    /\ decision' = run_cmake(args["force_cmake"], cmake_cache, cmake_args)
    /\ pc' = "run_cmake_returned"
    /\ UNCHANGED <<requested, args, is_pip, debug, args_cache_file, cmake_cache,
                   cmake_args, build_outputs, all_commands, compile_commands_json,
                   wrote, cache_saved, last_dump, viewer_link, utils_link, invocations,
                   configure_calls, build_calls, failed>>

NextRunCMake == CallRunCMake

SpecRunCMake == InitRunCMake /\ [][NextRunCMake]_vars

---------------------------------------------------------------------------
(* create_compile_commands on its own, called by one process after the other *)
(* over the same build outputs                                              *)

RecordSet == {Record(CmdGcc), Record(CmdClang), Record(CmdGcc9), Record(CmdGxx)}

\* sizes[1] + .. + sizes[i]
RECURSIVE SizeSum(_, _)
SizeSum(sizes, i) == IF i = 0 THEN 0 ELSE sizes[i] + SizeSum(sizes, i - 1)

\* the files of the given sizes that hold the records of flat, in order
OutputsOf(sizes, flat) ==
    [i \in 1..Len(sizes) |->
        SubSeq(flat, SizeSum(sizes, i - 1) + 1, SizeSum(sizes, i))]

\* at most MaxFiles files holding at most MaxRecords records together
BuildOutputsSet ==
    UNION {{OutputsOf(sizes, flat) :
               flat \in [1..SizeSum(sizes, Len(sizes)) -> RecordSet]} :
           sizes \in {s \in SeqsUpTo(0..MaxRecords, MaxFiles) :
                         SizeSum(s, Len(s)) <= MaxRecords}}

InitCompileCommands ==
    /\ Quiet
    /\ pc = "cc_call"
    /\ debug = FALSE
    /\ requested = DefaultArgs
    /\ args = DefaultArgs
    /\ cmake_args = <<>>
    /\ args_cache_file = NoFile
    /\ cmake_cache = NoFile
    /\ build_outputs \in BuildOutputsSet
    /\ compile_commands_json \in
           {NoFile, File(json_dumps(<<>>)), File(json_dumps(<<Record(CmdGxx)>>))}

\* lines 248-249, in the first process and in every later one
GlobAndLoad ==
    /\ pc \in {"cc_call", "cc_returned"}
    /\ invocations < MaxInvocations
    /\ invocations' = invocations + 1
    /\ all_commands' = merge_commands(build_outputs, 1)
    /\ wrote' = FALSE
    /\ pc' = "cc_loaded"
    /\ UNCHANGED <<requested, args, is_pip, debug, args_cache_file, cmake_cache,
                   cmake_args, decision, build_outputs, compile_commands_json,
                   cache_saved, last_dump, viewer_link, utils_link, configure_calls,
                   build_calls, failed>>

\* lines 255-257
NormalizeCommands ==
    /\ pc = "cc_loaded"
    /\ all_commands' = normalize_commands(all_commands)
    /\ pc' = "cc_normalized"
    /\ UNCHANGED <<requested, args, is_pip, debug, args_cache_file, cmake_cache,
                   cmake_args, decision, build_outputs, compile_commands_json, wrote,
                   cache_saved, last_dump, viewer_link, utils_link, invocations,
                   configure_calls, build_calls, failed>>

\* lines 259-266
WriteIfChanged ==
    /\ pc = "cc_normalized"
    /\ wrote' = writes_file(all_commands, compile_commands_json)
    /\ compile_commands_json' = write_if_changed(all_commands, compile_commands_json)
    /\ pc' = "cc_returned"
    /\ UNCHANGED <<requested, args, is_pip, debug, args_cache_file, cmake_cache,
                   cmake_args, decision, build_outputs, all_commands, cache_saved,
                   last_dump, viewer_link, utils_link, invocations, configure_calls,
                   build_calls, failed>>

NextCompileCommands == GlobAndLoad \/ NormalizeCommands \/ WriteIfChanged

SpecCompileCommands == InitCompileCommands /\ [][NextCompileCommands]_vars

---------------------------------------------------------------------------
(* The claims *)

AfterLoad == {"submodules", "run_cmake", "configure", "build", "finish"}

\* the reload of lines 137-143 took place in the running process
Reloaded == ~is_pip /\ ~requested["no_cached_args"] /\ args_cache_file.exists

persisted == json_load(args_cache_file.content)

\* C1: in every state of every process the blacklisted option force_cmake has the
\* value the command line of that process gave it, whatever setuppy_args.json holds
C1_BlacklistedKeyNeverReloaded ==
    \A k \in ARG_CACHE_BLACKLIST : args[k] = requested[k]

\* C1 witness: a process that did not ask for --force-cmake has reloaded a cache,
\* saved by an earlier process, that holds force_cmake = true
C1_Witness ==
    /\ pc = "submodules"
    /\ Reloaded
    /\ last_dump.done
    /\ persisted["force_cmake"]
    /\ ~requested["force_cmake"]
    /\ ~args["force_cmake"]

\* C4: after the reload step every key has the persisted value if the cache file
\* exists, --no-cached-args was not given, the process is not run by pip and the key
\* is in the file and not blacklisted; every other key has the requested value
C4_EffectiveConfiguration ==
    pc \in AfterLoad =>
        /\ DOMAIN args =
               ParserKeys \cup
                   (IF Reloaded THEN DOMAIN persisted \ ARG_CACHE_BLACKLIST ELSE {})
        /\ \A k \in DOMAIN args :
               args[k] = IF Reloaded /\ k \in DOMAIN persisted
                            /\ k \notin ARG_CACHE_BLACKLIST
                         THEN persisted[k]
                         ELSE requested[k]

\* C4 witness: the persisted value of a flag has replaced the one requested, and a
\* key the file lacks has kept the requested value
C4_Witness ==
    /\ pc = "submodules"
    /\ Reloaded
    /\ "build_tests" \notin DOMAIN persisted
    /\ requested["build_tests"] /\ args["build_tests"]
    /\ persisted["headless"] /\ ~requested["headless"] /\ args["headless"]

\* C5 as the specification states it: the last step of a process leaves the cache
\* file alone when --no-cached-args was given, and else writes the effective
\* configuration to it
C5_Original ==
    [][pc = "finish" =>
          IF requested["no_cached_args"]
          THEN args_cache_file' = args_cache_file
          ELSE args_cache_file'.exists /\ json_load(args_cache_file'.content) = args']_vars

\* C5 amended: the last step of a process not run by pip writes the effective
\* configuration to the cache file, with or without --no-cached-args; no step of a
\* process run by pip changes the file
C5_SavedUnlessPip ==
    [][/\ pc = "finish" /\ ~is_pip =>
              /\ cache_saved'
              /\ args_cache_file'.exists
              /\ json_load(args_cache_file'.content) = args'
       /\ pc \in Running /\ is_pip => args_cache_file' = args_cache_file]_vars

\* C5 witness: a process given --no-cached-args has finished and the cache file holds
\* its configuration, unlike the file it found
C5_Witness ==
    /\ pc = "done"
    /\ requested["no_cached_args"]
    /\ ~is_pip
    /\ cache_saved
    /\ invocations = 2
    /\ json_load(args_cache_file.content) = args
    /\ persisted["no_cached_args"]

\* C6: once the configure or the build step has failed the process is over: no
\* further cmake call (none of the build after a failed configure, no second call of
\* the failed step), and neither compile_commands.json nor the cache file is written
C6_FailureAborts ==
    [][failed' \in {"configure", "build"} =>
          /\ pc' = "aborted"
          /\ configure_calls' <= 1
          /\ build_calls' = (IF failed' = "build" THEN 1 ELSE 0)
          /\ ~wrote' /\ ~cache_saved'
          /\ args_cache_file' = args_cache_file
          /\ compile_commands_json' = compile_commands_json]_vars

\* C6 witness: the configure step of a second process has failed; both files are
\* there from the first process
C6_Witness ==
    /\ pc = "aborted"
    /\ failed = "configure"
    /\ configure_calls = 1
    /\ build_calls = 0
    /\ last_dump.done
    /\ args_cache_file = File(json_dump(last_dump.namespace))
    /\ compile_commands_json.exists

\* C10: a process that reloads the cache an earlier process saved has, for every
\* key but the blacklisted ones, the value that was saved, whatever its own command
\* line gave; a blacklisted key has the value of its own command line
C10_SaveThenLoad ==
    pc \in AfterLoad /\ last_dump.done /\ ~is_pip /\ ~requested["no_cached_args"] =>
        /\ DOMAIN args = DOMAIN last_dump.namespace
        /\ \A k \in DOMAIN args :
               args[k] = IF k \in ARG_CACHE_BLACKLIST THEN requested[k]
                         ELSE last_dump.namespace[k]

\* C10 witness: the reloading process asked for --no-update-submodules, the saved
\* configuration has it off and has force_cmake on
C10_Witness ==
    /\ pc = "submodules"
    /\ last_dump.done /\ ~is_pip
    /\ requested["no_update_submodules"]
    /\ ~last_dump.namespace["no_update_submodules"]
    /\ ~args["no_update_submodules"]
    /\ last_dump.namespace["force_cmake"]
    /\ ~args["force_cmake"]

\* a requested argument that is no -G flag and has the form ..<key>=<value>
IsDefinition(arg) == Slice(arg, 0, 2) # <<"-", "G">> /\ Find(arg, "=", 1) # 0
RequestedKey(arg) == SubSeq(arg, 3, Find(arg, "=", 1) - 1)
RequestedValue(arg) == SubSeq(arg, Find(arg, "=", 1) + 1, Len(arg))

\* some requested definition has a line of the state file that matches the grammar,
\* has its key and another value
Mismatch ==
    \E i \in 1..Len(cmake_args), j \in 1..Len(cmake_cache.content) :
        /\ IsDefinition(cmake_args[i])
        /\ cache_parser_match(cmake_cache.content[j]).ok
        /\ cache_parser_match(cmake_cache.content[j]).K = RequestedKey(cmake_args[i])
        /\ cache_parser_match(cmake_cache.content[j]).V # RequestedValue(cmake_args[i])

\* C2 as the specification states it: without the force flag and with a state file,
\* run_cmake returns True if there is a mismatch and False if there is none
C2_Original ==
    pc = "run_cmake_returned" /\ ~args["force_cmake"] /\ cmake_cache.exists =>
        decision = IF Mismatch THEN "True" ELSE "False"

\* C2 for argument lists in which every argument but the -G flags has a `=`: there
\* run_cmake returns as C2 says
C2_ForDefinitionsOnly ==
    /\ pc = "run_cmake_returned" /\ ~args["force_cmake"] /\ cmake_cache.exists
    /\ \A i \in 1..Len(cmake_args) :
           Slice(cmake_args[i], 0, 2) = <<"-", "G">> \/ IsDefinition(cmake_args[i])
    => decision = IF Mismatch THEN "True" ELSE "False"

\* C3: run_cmake returns True whenever the force flag is set and whenever
\* CMakeCache.txt does not exist
C3_ForcedOrFirstConfigure ==
    pc = "run_cmake_returned" /\ (args["force_cmake"] \/ ~cmake_cache.exists) =>
        decision = "True"

\* C3 witness: the force flag is set, the state file exists and agrees with every
\* requested definition, and run_cmake returned True
C3_Witness ==
    /\ pc = "run_cmake_returned"
    /\ args["force_cmake"]
    /\ cmake_cache.exists
    /\ Len(cmake_cache.content) = 2
    /\ Len(cmake_args) = 2
    /\ \A i \in 1..2 : IsDefinition(cmake_args[i])
    /\ ~Mismatch
    /\ decision = "True"

\* C7: create_compile_commands opens compile_commands.json for writing exactly when
\* the new text differs from what the file holds (nothing, if it is missing), and a
\* second call over the same build outputs writes nothing and leaves the text as it is
C7_WriteOnlyIfChanged ==
    [][pc = "cc_normalized" =>
          /\ wrote' = (read_contents(compile_commands_json) # json_dumps(all_commands))
          /\ ~wrote' => compile_commands_json' = compile_commands_json
          /\ compile_commands_json' = File(json_dumps(all_commands))
          /\ invocations >= 2 =>
                 /\ ~wrote'
                 /\ compile_commands_json' = compile_commands_json]_vars

\* C7 witness: the second call has returned without writing a file of some records
C7_Witness ==
    /\ pc = "cc_returned"
    /\ invocations = 2
    /\ ~wrote
    /\ Len(all_commands) >= 2
    /\ compile_commands_json = File(json_dumps(all_commands))

FileSizes == [f \in 1..Len(build_outputs) |-> Len(build_outputs[f])]

\* C8: the merged sequence has the records of the files in the order of the files
\* and, within a file, in the order of the file: as many as the files hold together,
\* record r of file f at place r after the records of the files before f
C8_MergeIsConcatenation ==
    pc = "cc_loaded" =>
        /\ Len(all_commands) = SizeSum(FileSizes, Len(build_outputs))
        /\ \A f \in 1..Len(build_outputs) :
               \A r \in 1..Len(build_outputs[f]) :
                   all_commands[SizeSum(FileSizes, f - 1) + r] = build_outputs[f][r]
        /\ build_outputs = <<>> => all_commands = <<>>

\* C8 witness: two files that differ, the second holding a record of the first again
C8_Witness ==
    /\ pc = "cc_loaded"
    /\ Len(build_outputs) = 2
    /\ Len(build_outputs[1]) = 2
    /\ Len(build_outputs[2]) = 1
    /\ build_outputs[1][1] # build_outputs[1][2]
    /\ build_outputs[2][1] = build_outputs[1][1]
    /\ Len(all_commands) = 3

\* C9: the normalization step changes nothing but the command of the records whose
\* command begins with "gcc ", and there only these four characters, to "g++ "
C9_NormalizeGccOnly ==
    [][pc = "cc_loaded" =>
          /\ Len(all_commands') = Len(all_commands)
          /\ \A i \in 1..Len(all_commands) :
                 /\ all_commands'[i].directory = all_commands[i].directory
                 /\ all_commands'[i].file = all_commands[i].file
                 /\ all_commands'[i].command =
                        IF /\ Len(all_commands[i].command) >= 4
                           /\ all_commands[i].command[1] = "g"
                           /\ all_commands[i].command[2] = "c"
                           /\ all_commands[i].command[3] = "c"
                           /\ all_commands[i].command[4] = " "
                        THEN <<"g", "+", "+", " ">>
                                 \o SubSeq(all_commands[i].command, 5,
                                           Len(all_commands[i].command))
                        ELSE all_commands[i].command]_vars

\* C9 witness: a gcc, a clang and a gcc-9 command were normalized; only the first
\* is changed
C9_Witness ==
    /\ pc = "cc_normalized"
    /\ build_outputs = << <<Record(CmdGcc), Record(CmdClang)>>, <<Record(CmdGcc9)>> >>
    /\ all_commands = <<Record(CmdGxx), Record(CmdClang), Record(CmdGcc9)>>

=============================================================================
